---------------------------- MODULE Spec2Model ----------------------------
(***************************************************************************)
(* Performance analytics of the namsa front end: the administrator view    *)
(* (AdminPerformance), the artist view (ArtistPerformance) and the company *)
(* music library (CompanyMusic).  Each view loads a snapshot when it is    *)
(* mounted, reloads it on an accepted cross-tab storage notification, and  *)
(* derives its rankings and trends from the snapshot with useMemo.         *)
(***************************************************************************)
EXTENDS Integers, Sequences, FiniteSets, TLC

(***************************************************************************)
(* Bounds of the model.                                                    *)
(***************************************************************************)
\* loads one mounted view instance may start (initial load plus reloads)
MaxLoads == 2
\* log sheets in a snapshot under PipelineSpec
MaxSheets == 2
\* selection events in a snapshot under PipelineSpec
MaxSel == 2
\* distinct tracks, artists and companies in a snapshot under RankSpec
MaxKeys == 11

(***************************************************************************)
(* Values.  The code tests optional fields with ! and ||, so an absent     *)
(* value and a falsy one behave alike: NoVal is an absent label, NoId an   *)
(* absent or zero identifier, NoTitle an absent or empty title.            *)
(***************************************************************************)
NoVal == "<none>"
NoId == 0
NoTitle == <<>>

\* selection entries of a log sheet (elements of selectedMusic)
M1 == [id |-> 1, title |-> <<"Song One">>, email |-> "ann@x", artist |-> "Ann"]
M2 == [id |-> 2, title |-> NoTitle, email |-> NoVal, artist |-> "Bob"]
M2u == [id |-> 2, title |-> <<"Song Two">>, email |-> NoVal, artist |-> NoVal]
M0 == [id |-> NoId, title |-> <<"Ghost">>, email |-> NoVal, artist |-> "Bob"]
EntryPool == {M1, M2, M2u, M0}

\* sheet headers: company and creation date (year, zero-based month, day)
DateA == [year |-> 2024, month |-> 0, day |-> 15]
DateB == [year |-> 2024, month |-> 1, day |-> 3]
DateC == [year |-> 2023, month |-> 10, day |-> 30]
HeaderPool ==
    { [company |-> "Acme", createdDate |-> DateA],
      [company |-> NoVal, createdDate |-> DateC] }

MkSheet(h, sel) ==
    [company |-> h.company, createdDate |-> h.createdDate, selectedMusic |-> sel]

\* the two sheets of the worked example
SheetA == MkSheet([company |-> "Acme", createdDate |-> DateA], <<M1, M1, M2>>)
SheetB == MkSheet([company |-> "Acme", createdDate |-> DateB], <<M1>>)

\* catalog tracks of the artist
T1 == [id |-> 1, title |-> <<"Song One">>]
T2 == [id |-> 2, title |-> <<"Song Two">>]

Min(a, b) == IF a < b THEN a ELSE b

\* sequences over S of length exactly n
RECURSIVE SeqsOfLen(_, _)
SeqsOfLen(S, n) ==
    IF n = 0 THEN { <<>> }
    ELSE { <<x>> \o r : x \in S, r \in SeqsOfLen(S, n - 1) }

\* snapshots of exactly n sheets holding at most `budget` selection events
RECURSIVE SnapsOf(_, _)
SnapsOf(n, budget) ==
    IF n = 0 THEN { <<>> }
    ELSE UNION { { <<MkSheet(h, sel)>> \o r :
                     h \in HeaderPool,
                     sel \in SeqsOfLen(EntryPool, k),
                     r \in SnapsOf(n - 1, budget - k) } : k \in 0..budget }

\* what getAllLogSheets / getLogSheets can answer under PipelineSpec
PipelineSheets == UNION { SnapsOf(n, MaxSel) : n \in 0..MaxSheets }

\* what getMyMusic can answer under PipelineSpec
TrackLists == { <<>>, <<T1>>, <<T2, T1>> }

\* what the snapshot provider answers while the coordinator is exercised (an
\* empty track list or music library arises there from a rejected request)
CoordSheets == { <<>>, <<SheetA, SheetB>> }
CoordTracks == { <<T1>>, <<T2, T1>> }

\* how a request to the snapshot provider settles: fulfilled with data, or
\* rejected
Fulfilled(d) == [ok |-> TRUE, data |-> d]
Fail == [ok |-> FALSE, data |-> <<>>]
Answers(S) == { Fulfilled(d) : d \in S } \cup { Fail }


(***************************************************************************)
(* Strings the code builds are sequences of characters, so that their      *)
(* length and their order are computed rather than assumed.                *)
(***************************************************************************)
DigitChars == <<"0", "1", "2", "3", "4", "5", "6", "7", "8", "9">>

\* String(n) for an integer n >= 0
RECURSIVE ToStr(_)
ToStr(n) ==
    IF n < 10 THEN <<DigitChars[n + 1]>>
    ELSE ToStr(n \div 10) \o <<DigitChars[(n % 10) + 1]>>

DigitVal(c) == CHOOSE d \in 0..9 : DigitChars[d + 1] = c

\* parseInt(s) for a string of decimal digits
RECURSIVE ParseInt(_)
ParseInt(s) ==
    IF Len(s) = 1 THEN DigitVal(s[1])
    ELSE 10 * ParseInt(SubSeq(s, 1, Len(s) - 1)) + DigitVal(s[Len(s)])

\* a padStart that pads nothing
PadStart_None(s, n, c) == s

\* s.padStart(n, c)
RECURSIVE PadStart(_, _, _)
PadStart(s, n, c) == IF Len(s) >= n THEN s ELSE PadStart(<<c>> \o s, n, c)

\* `${date.getFullYear()}-${String(date.getMonth() + 1).padStart(2, '0')}`
monthKey(date) ==
    ToStr(date.year) \o <<"-">> \o PadStart(ToStr(date.month + 1), 2, "0")

\* collation rank of a character: the hyphen sorts before the digits
CharRank(c) == IF c = "-" THEN 0 ELSE 1 + DigitVal(c)

\* a.localeCompare(b) on strings of digits and hyphens: -1, 0 or 1
RECURSIVE localeCompare(_, _)
localeCompare(a, b) ==
    IF a = <<>> /\ b = <<>> THEN 0
    ELSE IF a = <<>> THEN -1
    ELSE IF b = <<>> THEN 1
    ELSE IF CharRank(a[1]) < CharRank(b[1]) THEN -1
    ELSE IF CharRank(a[1]) > CharRank(b[1]) THEN 1
    ELSE localeCompare(Tail(a), Tail(b))

(***************************************************************************)
(* JavaScript objects used as maps: a sequence of entries in insertion     *)
(* order, each entry a record with a key.                                  *)
(***************************************************************************)
Has(map, k) == \E i \in DOMAIN map : map[i].key = k
At(map, k) == map[CHOOSE i \in DOMAIN map : map[i].key = k]

\* map[k] = (map[k] || 0) + n
AddCount(map, k, n) ==
    IF Has(map, k)
    THEN [i \in DOMAIN map |->
            IF map[i].key = k THEN [map[i] EXCEPT !.count = @ + n] ELSE map[i]]
    ELSE Append(map, [key |-> k, count |-> n])

\* Object.entries of an object whose keys are integers: ascending key order
RECURSIVE EntriesByIntKey(_)
EntriesByIntKey(map) ==
    IF map = <<>> THEN <<>>
    ELSE LET i == CHOOSE j \in DOMAIN map :
                    \A l \in DOMAIN map : map[j].key <= map[l].key
             rest == [j \in 1..(Len(map) - 1) |->
                        IF j < i THEN map[j] ELSE map[j + 1]]
         IN  <<map[i]>> \o EntriesByIntKey(rest)

\* an insertion that puts x ahead of the entries of equal count (unstable sort)
InsertByCountDesc_BeforeTies(sorted, x) ==
    LET ahead == { i \in DOMAIN sorted : sorted[i].count > x.count }
        n == IF ahead = {} THEN 0 ELSE CHOOSE i \in ahead : \A j \in ahead : j <= i
    IN  SubSeq(sorted, 1, n) \o <<x>> \o SubSeq(sorted, n + 1, Len(sorted))

\* Array.prototype.sort((a, b) => b.count - a.count): stable, count descending
RECURSIVE SortByCountDesc(_)
InsertByCountDesc(sorted, x) ==
    LET after == { i \in DOMAIN sorted : sorted[i].count >= x.count }
        n == IF after = {} THEN 0 ELSE CHOOSE i \in after : \A j \in after : j <= i
    IN  SubSeq(sorted, 1, n) \o <<x>> \o SubSeq(sorted, n + 1, Len(sorted))
SortByCountDesc(s) ==
    IF s = <<>> THEN <<>>
    ELSE InsertByCountDesc(SortByCountDesc(SubSeq(s, 1, Len(s) - 1)), s[Len(s)])

\* Array.prototype.sort(([a], [b]) => a.localeCompare(b)): stable, key ascending
RECURSIVE SortByKey(_)
InsertByKey(sorted, x) ==
    LET after == { i \in DOMAIN sorted : localeCompare(sorted[i].key, x.key) <= 0 }
        n == IF after = {} THEN 0 ELSE CHOOSE i \in after : \A j \in after : j <= i
    IN  SubSeq(sorted, 1, n) \o <<x>> \o SubSeq(sorted, n + 1, Len(sorted))
SortByKey(s) ==
    IF s = <<>> THEN <<>>
    ELSE InsertByKey(SortByKey(SubSeq(s, 1, Len(s) - 1)), s[Len(s)])

\* a slice that keeps one entry more
Slice_OffByOne(s, n) == SubSeq(s, 1, Min(Len(s), n + 1))

\* slice(0, 10)
TopN == 10
Slice(s, n) == SubSeq(s, 1, Min(Len(s), n))

(***************************************************************************)
(* Selection extractor: the defaulting rules of one selection entry.       *)
(***************************************************************************)
\* sheet.company?.companyName || 'Unknown Company'
companyName(sheet) ==
    IF sheet.company = NoVal THEN "Unknown Company" ELSE sheet.company

\* (m as any).title || `Track ${id}`
title(m) == IF m.title = NoTitle THEN <<"Track ">> \o ToStr(m.id) ELSE m.title

\* (m as any).user?.email || (m as any).artist || 'Unknown Artist'
artistName(m) ==
    IF m.email # NoVal THEN m.email
    ELSE IF m.artist # NoVal THEN m.artist
    ELSE "Unknown Artist"

(***************************************************************************)
(* AdminPerformance: counting aggregator, ranker and trend bucketer.       *)
(***************************************************************************)
\* accumulators that start from the counts of an earlier computation
EmptyMaps_Carry ==
    [songMap |-> <<[key |-> <<"1">>, title |-> <<"Song One">>, count |-> 1]>>,
     artistMap |-> <<[key |-> "ann@x", count |-> 1]>>,
     companyMap |-> <<[key |-> "Acme", count |-> 1]>>]

EmptyMaps == [songMap |-> <<>>, artistMap |-> <<>>, companyMap |-> <<>>]

\* CountSelection counting a track once however often it is selected
CountSelection_OncePerTrack(acc, company, m) ==
    IF m.id = NoId THEN acc
    ELSE [songMap |-> IF Has(acc.songMap, ToStr(m.id)) THEN acc.songMap
                      ELSE Append(acc.songMap,
                                  [key |-> ToStr(m.id), title |-> title(m), count |-> 1]),
          artistMap |-> AddCount(acc.artistMap, artistName(m), 1),
          companyMap |-> AddCount(acc.companyMap, company, 1)]

\* the body of the inner loop for one selection entry m of a sheet
CountSelection(acc, company, m) ==
    IF m.id = NoId THEN acc
    ELSE LET withSong ==
                 IF Has(acc.songMap, ToStr(m.id)) THEN acc.songMap
                 ELSE Append(acc.songMap,
                             [key |-> ToStr(m.id), title |-> title(m), count |-> 0])
         IN  [songMap |-> AddCount(withSong, ToStr(m.id), 1),
              artistMap |-> AddCount(acc.artistMap, artistName(m), 1),
              companyMap |-> AddCount(acc.companyMap, company, 1)]

\* the inner loop: the maps after one entry are computed before the next
\* entry is looked at (`next` is bound to the computed maps)
RECURSIVE CountSelections(_, _, _)
CountSelections(acc, company, sel) ==
    IF sel = <<>> THEN acc
    ELSE CHOOSE r \in { CountSelections(next, company, Tail(sel)) :
                          next \in { CountSelection(acc, company, Head(sel)) } } : TRUE

\* the outer loop over the sheets of the snapshot, one sheet after the other
RECURSIVE CountSheets(_, _)
CountSheets(acc, sheets) ==
    IF sheets = <<>> THEN acc
    ELSE CHOOSE r \in { CountSheets(next, Tail(sheets)) :
                          next \in { CountSelections(acc, companyName(Head(sheets)),
                                                     Head(sheets).selectedMusic) } } : TRUE

\* Object.entries(songMap): the keys are integer-like, so ascending by id
SongEntries(map) ==
    LET byInt == EntriesByIntKey(
                     [i \in DOMAIN map |-> [map[i] EXCEPT !.key = ParseInt(@)]])
    IN  [i \in DOMAIN byInt |->
            [id |-> byInt[i].key, title |-> byInt[i].title, count |-> byInt[i].count]]

songCounts(sheets) == SongEntries(CountSheets(EmptyMaps, sheets).songMap)
artistCounts(sheets) == CountSheets(EmptyMaps, sheets).artistMap
companyCounts(sheets) == CountSheets(EmptyMaps, sheets).companyMap

\* arr.sort((a, b) => b.count - a.count).slice(0, 10): sort reorders arr itself
\* and returns it, slice copies; `arr` is the array afterwards, `top` the result
Ranker(arr) == [arr |-> SortByCountDesc(arr), top |-> Slice(SortByCountDesc(arr), TopN)]

topSongs(sheets) == Slice(SortByCountDesc(songCounts(sheets)), TopN)
topArtists(sheets) == Slice(SortByCountDesc(artistCounts(sheets)), TopN)
topCompanies(sheets) == Slice(SortByCountDesc(companyCounts(sheets)), TopN)

\* a dataByMonth that counts sheets instead of their selections
RECURSIVE AdminMonths_PerSheet(_, _)
AdminMonths_PerSheet(map, sheets) ==
    IF sheets = <<>> THEN map
    ELSE AdminMonths_PerSheet(
             AddCount(map, monthKey(Head(sheets).createdDate), 1), Tail(sheets))

\* a dataByMonth that counts only the selections carrying a track identifier
RECURSIVE AdminMonths_ResolvableOnly(_, _)
AdminMonths_ResolvableOnly(map, sheets) ==
    IF sheets = <<>> THEN map
    ELSE AdminMonths_ResolvableOnly(
             AddCount(map, monthKey(Head(sheets).createdDate),
                      Len(SelectSeq(Head(sheets).selectedMusic, LAMBDA m : m.id # NoId))),
             Tail(sheets))

\* dataByMonth of the administrator view: one addition per sheet
RECURSIVE AdminMonths(_, _)
AdminMonths(map, sheets) ==
    IF sheets = <<>> THEN map
    ELSE AdminMonths(
             AddCount(map, monthKey(Head(sheets).createdDate),
                      Len(Head(sheets).selectedMusic)),
             Tail(sheets))

AdminHistoricalData(sheets) ==
    LET sorted == SortByKey(AdminMonths(<<>>, sheets))
    IN  [i \in DOMAIN sorted |-> [month |-> sorted[i].key, count |-> sorted[i].count]]

(***************************************************************************)
(* ArtistPerformance: scoped aggregator and scoped trend bucketer.         *)
(***************************************************************************)
\* for (const t of tracks) map[t.id] = { total: 0, companies: {}, track: t }
RECURSIVE InitTrackMap(_, _)
InitTrackMap(map, ts) ==
    IF ts = <<>> THEN map
    ELSE LET t == Head(ts)
             fresh == [key |-> t.id, total |-> 0, companies |-> <<>>, track |-> t]
         IN  InitTrackMap(
                 IF Has(map, t.id)
                 THEN [i \in DOMAIN map |-> IF map[i].key = t.id THEN fresh ELSE map[i]]
                 ELSE Append(map, fresh),
                 Tail(ts))

\* a loop body that leaves sheets without a company out of the nested counts
ScopedSelection_SkipUnknown(map, company, m) ==
    IF m.id = NoId THEN map
    ELSE IF ~Has(map, m.id) THEN map
    ELSE [i \in DOMAIN map |->
            IF map[i].key = m.id
            THEN [map[i] EXCEPT !.total = @ + 1,
                                !.companies = IF company = "Unknown Company" THEN @
                                              ELSE AddCount(@, company, 1)]
            ELSE map[i]]

\* the body of the inner loop for one selection entry m of a sheet
ScopedSelection(map, company, m) ==
    IF m.id = NoId THEN map
    ELSE IF ~Has(map, m.id) THEN map
    ELSE [i \in DOMAIN map |->
            IF map[i].key = m.id
            THEN [map[i] EXCEPT !.total = @ + 1,
                                !.companies = AddCount(@, company, 1)]
            ELSE map[i]]

RECURSIVE ScopedSelections(_, _, _)
ScopedSelections(map, company, sel) ==
    IF sel = <<>> THEN map
    ELSE ScopedSelections(ScopedSelection(map, company, Head(sel)), company, Tail(sel))

RECURSIVE ScopedSheets(_, _)
ScopedSheets(map, sheets) ==
    IF sheets = <<>> THEN map
    ELSE ScopedSheets(
             ScopedSelections(map, companyName(Head(sheets)), Head(sheets).selectedMusic),
             Tail(sheets))

performanceByTrack(ts, sheets) == ScopedSheets(InitTrackMap(<<>>, ts), sheets)

\* dataByMonth of the artist view: one addition per entry whose id is `sel`
RECURSIVE ScopedMonthSelections(_, _, _, _)
ScopedMonthSelections(map, key, sel, music) ==
    IF music = <<>> THEN map
    ELSE ScopedMonthSelections(
             IF Head(music).id = sel THEN AddCount(map, key, 1) ELSE map,
             key, sel, Tail(music))

RECURSIVE ScopedMonths(_, _, _)
ScopedMonths(map, sel, sheets) ==
    IF sheets = <<>> THEN map
    ELSE ScopedMonths(
             ScopedMonthSelections(map, monthKey(Head(sheets).createdDate), sel,
                                   Head(sheets).selectedMusic),
             sel, Tail(sheets))

ArtistHistoricalData(sel, sheets) ==
    IF sel = NoId THEN <<>>
    ELSE LET sorted == SortByKey(ScopedMonths(<<>>, sel, sheets))
         IN  [i \in DOMAIN sorted |->
                [month |-> sorted[i].key, count |-> sorted[i].count]]

(***************************************************************************)
(* Cross-tab notifications: the storage events of the window.              *)
(***************************************************************************)
UpdateKey == "namsa:update"
Keys == { UpdateKey, "namsa:other", NoVal }
Payloads ==
    { NoVal, "{\"type\":\"music\"}", "{\"type\":\"profile\"}",
      "{\"type\":\"unrelated\"}", "{}", "null", "\"music\"", "not json",
      "{type:music}" }
\* every payload on the update key; on any other key, and on the null key of
\* storage.clear(), a payload that would be accepted and an absent one
StorageEvents ==
    [key : { UpdateKey }, newValue : Payloads]
        \cup [key : Keys \ { UpdateKey }, newValue : { "{\"type\":\"music\"}", NoVal }]

\* JSON.parse on the payload texts above; ok = FALSE is a thrown SyntaxError
JSONParse(text) ==
    CASE text = "{\"type\":\"music\"}" -> [ok |-> TRUE, kind |-> "object", type |-> "music"]
      [] text = "{\"type\":\"profile\"}" -> [ok |-> TRUE, kind |-> "object", type |-> "profile"]
      [] text = "{\"type\":\"unrelated\"}" -> [ok |-> TRUE, kind |-> "object", type |-> "unrelated"]
      [] text = "{}" -> [ok |-> TRUE, kind |-> "object", type |-> NoVal]
      [] text = "null" -> [ok |-> TRUE, kind |-> "null", type |-> NoVal]
      [] text = "\"music\"" -> [ok |-> TRUE, kind |-> "string", type |-> NoVal]
      [] OTHER -> [ok |-> FALSE, kind |-> "SyntaxError", type |-> NoVal]

\* payload?.type
TypeOf(payload) == IF payload.kind = "object" THEN payload.type ELSE NoVal

\* the types on which a view reloads
AcceptedTypes(v) == IF v = "company" THEN { "music" } ELSE { "music", "profile" }

\* onStorage reloading on every payload that parses, whatever its type
onStorage_AnyType(v, e) ==
    IF e.key = NoVal \/ e.key # UpdateKey THEN "return"
    ELSE LET payload == JSONParse(IF e.newValue = NoVal THEN "{}" ELSE e.newValue)
         IN  IF ~payload.ok THEN "caught" ELSE "load"

\* onStorage without its try/catch: the SyntaxError of JSON.parse escapes
onStorage_NoTryCatch(v, e) ==
    IF e.key = NoVal \/ e.key # UpdateKey THEN "return"
    ELSE LET payload == JSONParse(IF e.newValue = NoVal THEN "{}" ELSE e.newValue)
         IN  IF ~payload.ok THEN "threw"
             ELSE IF TypeOf(payload) \in AcceptedTypes(v) THEN "load"
             ELSE "skip"

\* onStorage: "return" (wrong key), "caught" (parse error swallowed), "skip"
\* (parsed, type not accepted) or "load" (load() is called)
onStorage(v, e) ==
    IF e.key = NoVal \/ e.key # UpdateKey THEN "return"
    ELSE LET payload == JSONParse(IF e.newValue = NoVal THEN "{}" ELSE e.newValue)
         IN  IF ~payload.ok THEN "caught"
             ELSE IF TypeOf(payload) \in AcceptedTypes(v) THEN "load"
             ELSE "skip"

(***************************************************************************)
(* State.                                                                  *)
(***************************************************************************)
VARIABLES
    active,           \* the mounted view: "none", "admin", "artist" or "company"
    logSheets,        \* useState<LogSheet[]>([])
    tracks,           \* useState<ArtistWork[]>([]) of the artist view
    music,            \* useState<ArtistWork[]>([]) of the company view
    loading,          \* useState(true)
    selectedTrackId,  \* useState<number | null>(null)
    loads,            \* the calls of load() of the mounted instance, in start order
    listeners,        \* onStorage closures registered on the window
    toasts,           \* toasts emitted by the mounted instance, in order
    handled           \* how the latest onStorage invocation ended

vars == <<active, logSheets, tracks, music, loading, selectedTrackId, loads,
          listeners, toasts, handled>>

Views == { "admin", "artist", "company" }

ConfirmToast == "Performance Data Updated"
ErrorToast == "Error"

\* a call of load(): who called it, where it stands, which of its requests
\* were rejected, and the snapshot it fetched (after the catch fallbacks)
NewLoad(caller) ==
    [by |-> caller, pc |-> "await", rejected |-> {}, sheets |-> <<>>, tracks |-> <<>>]

Rejected(name, res) == IF res.ok THEN {} ELSE { name }

Pending == { i \in DOMAIN loads : loads[i].pc = "await" }

\* the component state before its first effect ran
Init ==
    /\ active = "none"
    /\ logSheets = <<>>
    /\ tracks = <<>>
    /\ music = <<>>
    /\ loading = TRUE
    /\ selectedTrackId = NoId
    /\ loads = <<>>
    /\ listeners = 0
    /\ toasts = <<>>
    /\ handled = "none"

\* window.addEventListener('storage', onStorage)
addEventListener(n) == n + 1

\* a cleanup that leaves the listener registered
removeEventListener_Leak(n) == n

\* the cleanup of the effect: window.removeEventListener('storage', onStorage)
removeEventListener(n) == n - 1

\* the view becomes active: state is initialised and the effect runs
Mount(v) ==
    /\ active = "none"
    /\ active' = v
    /\ logSheets' = <<>>
    /\ tracks' = <<>>
    /\ music' = <<>>
    /\ selectedTrackId' = NoId
    /\ loading' = TRUE
    /\ loads' = <<NewLoad("effect")>>
    /\ listeners' = addEventListener(listeners)
    /\ toasts' = <<>>
    /\ handled' = "none"

\* the view becomes inactive: the cleanup runs and the instance is discarded;
\* a load still awaiting its answer sets state of no mounted component
Unmount ==
    /\ active # "none"
    /\ active' = "none"
    /\ listeners' = removeEventListener(listeners)
    /\ logSheets' = <<>>
    /\ tracks' = <<>>
    /\ music' = <<>>
    /\ selectedTrackId' = NoId
    /\ loading' = TRUE
    /\ loads' = <<>>
    /\ toasts' = <<>>
    /\ handled' = "none"

\* the dependency [toast] changes: cleanup, then the effect body again
EffectRerun ==
    /\ active # "none"
    /\ Len(loads) < MaxLoads
    /\ loading' = TRUE
    /\ loads' = Append(loads, NewLoad("effect"))
    /\ listeners' = addEventListener(removeEventListener(listeners))
    /\ UNCHANGED <<active, logSheets, tracks, music, selectedTrackId, toasts, handled>>

\* n copies of x appended to s
RECURSIVE AppendN(_, _, _)
AppendN(s, x, n) == IF n = 0 THEN s ELSE AppendN(Append(s, x), x, n - 1)

\* a dispatch that cancels the loads still awaiting their answer
StorageEvent_AbortsEarlier(e) ==
    /\ listeners > 0
    /\ LET r == onStorage(active, e)
           aborted == [k \in DOMAIN loads |->
                         IF loads[k].pc = "await"
                         THEN [loads[k] EXCEPT !.pc = "aborted"] ELSE loads[k]]
       IN  /\ handled' = r
           /\ IF r = "load"
              THEN /\ Len(loads) + listeners <= MaxLoads
                   /\ loading' = TRUE
                   /\ loads' = AppendN(aborted, NewLoad("onStorage"), listeners)
                   /\ toasts' = IF active = "company" THEN toasts
                                ELSE AppendN(toasts, ConfirmToast, listeners)
              ELSE UNCHANGED <<loading, loads, toasts>>
    /\ UNCHANGED <<active, logSheets, tracks, music, selectedTrackId, listeners>>

\* a storage event is dispatched to every registered onStorage
StorageEvent(e) ==
    /\ listeners > 0
    /\ LET r == onStorage(active, e)
       IN  /\ handled' = r
           /\ IF r = "load"
              THEN /\ Len(loads) + listeners <= MaxLoads
                   /\ loading' = TRUE
                   /\ loads' = AppendN(loads, NewLoad("onStorage"), listeners)
                   /\ toasts' = IF active = "company" THEN toasts
                                ELSE AppendN(toasts, ConfirmToast, listeners)
              ELSE UNCHANGED <<loading, loads, toasts>>
    /\ UNCHANGED <<active, logSheets, tracks, music, selectedTrackId, listeners>>

\* a storage event while no onStorage is registered
StorageEventUnheard(e) ==
    /\ listeners = 0
    /\ UNCHANGED vars

\* adminAPI.getAllLogSheets().catch(() => [])
OrEmpty(res) == IF res.ok THEN res.data ELSE <<>>

\* AdminPerformance.load discarding its answer when a load started later has
\* already completed
AdminLoadDone_DropStale(i, res) ==
    /\ active = "admin"
    /\ i \in Pending
    /\ logSheets' = IF \E j \in DOMAIN loads : j > i /\ loads[j].pc = "done"
                    THEN logSheets ELSE OrEmpty(res)
    /\ loading' = FALSE
    /\ loads' = [loads EXCEPT ![i].pc = "done", ![i].sheets = OrEmpty(res),
                              ![i].rejected = Rejected("sheets", res)]
    /\ UNCHANGED <<active, tracks, music, selectedTrackId, listeners, toasts, handled>>

\* AdminPerformance.load without the .catch(() => []) on its request: a
\* rejection reaches the catch block, which leaves logSheets as it was
AdminLoadDone_NoFallback(i, res) ==
    /\ active = "admin"
    /\ i \in Pending
    /\ logSheets' = IF res.ok THEN res.data ELSE logSheets
    /\ toasts' = IF res.ok THEN toasts ELSE Append(toasts, ErrorToast)
    /\ loading' = FALSE
    /\ loads' = [loads EXCEPT ![i].pc = "done", ![i].sheets = OrEmpty(res),
                              ![i].rejected = Rejected("sheets", res)]
    /\ UNCHANGED <<active, tracks, music, selectedTrackId, listeners, handled>>

\* AdminPerformance.load resumes after its await with answer res
AdminLoadDone(i, res) ==
    /\ active = "admin"
    /\ i \in Pending
    /\ logSheets' = OrEmpty(res)
    /\ loading' = FALSE
    /\ loads' = [loads EXCEPT ![i].pc = "done", ![i].sheets = OrEmpty(res),
                              ![i].rejected = Rejected("sheets", res)]
    /\ UNCHANGED <<active, tracks, music, selectedTrackId, listeners, toasts, handled>>

\* if (myTracks.length > 0) setSelectedTrackId(myTracks[0].id)
SelectFirst(myTracks, current) ==
    IF Len(myTracks) > 0 THEN myTracks[1].id ELSE current

\* ArtistPerformance.load resumes after Promise.all with answers resT, resS
ArtistLoadDone(i, resT, resS) ==
    /\ active = "artist"
    /\ i \in Pending
    /\ tracks' = OrEmpty(resT)
    /\ logSheets' = OrEmpty(resS)
    /\ selectedTrackId' = SelectFirst(OrEmpty(resT), selectedTrackId)
    /\ loading' = FALSE
    /\ loads' = [loads EXCEPT ![i].pc = "done", ![i].sheets = OrEmpty(resS),
                              ![i].tracks = OrEmpty(resT),
                              ![i].rejected = Rejected("tracks", resT)
                                              \cup Rejected("sheets", resS)]
    /\ UNCHANGED <<active, music, listeners, toasts, handled>>

\* CompanyMusic.loadMusic resumes after its await with answer res
CompanyLoadDone(i, res) ==
    /\ active = "company"
    /\ i \in Pending
    /\ IF ~res.ok
       THEN /\ toasts' = Append(toasts, ErrorToast)
            /\ UNCHANGED music
       ELSE /\ music' = res.data
            /\ UNCHANGED toasts
    /\ loading' = FALSE
    /\ loads' = [loads EXCEPT ![i].pc = "done", ![i].tracks = OrEmpty(res),
                              ![i].rejected = Rejected("music", res)]
    /\ UNCHANGED <<active, logSheets, tracks, selectedTrackId, listeners, handled>>

\* the user picks a track in the Select, which lists the tracks once loaded
SelectTrack(id) ==
    /\ active = "artist"
    /\ ~loading
    /\ Len(tracks) > 0
    /\ \E k \in DOMAIN tracks : tracks[k].id = id
    /\ selectedTrackId' = id
    /\ UNCHANGED <<active, logSheets, tracks, music, loading, loads, listeners,
                   toasts, handled>>

TrackIds == { 1, 2 }

Next ==
    \/ \E v \in Views : Mount(v)
    \/ Unmount
    \/ EffectRerun
    \/ \E e \in StorageEvents : StorageEvent(e)
    \/ \E e \in StorageEvents : StorageEventUnheard(e)
    \/ \E i \in Pending, res \in Answers(CoordSheets) : AdminLoadDone(i, res)
    \/ \E i \in Pending, resT \in Answers(CoordTracks), resS \in Answers(CoordSheets) :
          ArtistLoadDone(i, resT, resS)
    \/ \E i \in Pending, res \in Answers(CoordTracks) : CompanyLoadDone(i, res)
    \/ \E id \in TrackIds : SelectTrack(id)

Spec == Init /\ [][Next]_vars

(***************************************************************************)
(* The ranker on counters of more keys than it keeps: the administrator    *)
(* view is mounted and its initial load resumes with a snapshot of k keys, *)
(* key i being track i of artist KeyNames[i], selected by company          *)
(* KeyNames[i] once, or twice when i is in `heavy`.  The sheets arrive in  *)
(* descending key order, so the artist and company maps are filled in the  *)
(* opposite order of the integer-keyed track map.                          *)
(***************************************************************************)
KeyNames ==
    << "Alfa", "Bravo", "Charlie", "Delta", "Echo", "Foxtrot", "Golf", "Hotel",
       "India", "Juliett", "Kilo", "Lima", "Mike", "November", "Oscar", "Papa" >>
RankEntry(i) == [id |-> i, title |-> NoTitle, email |-> NoVal, artist |-> KeyNames[i]]
RankSheet(i, heavy) ==
    MkSheet([company |-> KeyNames[i], createdDate |-> DateA],
            IF i \in heavy THEN <<RankEntry(i), RankEntry(i)>> ELSE <<RankEntry(i)>>)
RankSnapshot(k, heavy) == [j \in 1..k |-> RankSheet(k + 1 - j, heavy)]

NextRank ==
    \/ Mount("admin")
    \/ \E i \in Pending, k \in 0..Min(MaxKeys, Len(KeyNames)) :
          \E heavy \in SUBSET (1..k) :
              AdminLoadDone(i, Fulfilled(RankSnapshot(k, heavy)))

RankSpec == Init /\ [][NextRank]_vars

(***************************************************************************)
(* The trend bucketer on sheets created in several months of two years,    *)
(* with one-digit and two-digit months, arriving in any order: a view is   *)
(* mounted and its initial load resumes with up to MaxSheets such sheets.  *)
(***************************************************************************)
TrendDates ==
    { [year |-> y, month |-> m, day |-> 15] : y \in { 2023, 2024 }, m \in { 0, 1, 8, 9, 11 } }
TrendSheets ==
    { MkSheet([company |-> "Acme", createdDate |-> d], sel) :
          d \in TrendDates, sel \in { <<M1>>, <<M2, M1>> } }

NextTrend ==
    \/ \E v \in { "admin", "artist" } : Mount(v)
    \/ \E i \in Pending, n \in 0..MaxSheets :
          \E d \in [1..n -> TrendSheets] : AdminLoadDone(i, Fulfilled(d))
    \/ \E i \in Pending, n \in 0..MaxSheets, t \in CoordTracks :
          \E d \in [1..n -> TrendSheets] : ArtistLoadDone(i, Fulfilled(t), Fulfilled(d))
    \/ \E id \in TrackIds : SelectTrack(id)

TrendSpec == Init /\ [][NextTrend]_vars

(***************************************************************************)
(* The snapshot provider answers or fails every request: the await of each *)
(* load that is in flight eventually resumes.                              *)
(***************************************************************************)
LoadResolves(i) ==
    \/ \E res \in Answers(CoordSheets) : AdminLoadDone(i, res)
    \/ \E resT \in Answers(CoordTracks), resS \in Answers(CoordSheets) :
          ArtistLoadDone(i, resT, resS)
    \/ \E res \in Answers(CoordTracks) : CompanyLoadDone(i, res)

LiveSpec == Spec /\ \A i \in 1..MaxLoads : WF_vars(LoadResolves(i))

(***************************************************************************)
(* The aggregation pipeline on every snapshot within the bounds: a view is *)
(* mounted and its initial load resumes with a snapshot of PipelineSheets. *)
(***************************************************************************)
NextPipeline ==
    \/ \E v \in { "admin", "artist" } : Mount(v)
    \/ \E i \in Pending, d \in PipelineSheets : AdminLoadDone(i, Fulfilled(d))
    \/ \E i \in Pending, t \in TrackLists, d \in PipelineSheets :
          ArtistLoadDone(i, Fulfilled(t), Fulfilled(d))
    \/ \E id \in TrackIds : SelectTrack(id)

PipelineSpec == Init /\ [][NextPipeline]_vars

(***************************************************************************)
(* Properties.                                                             *)
(***************************************************************************)
Analytics == { "admin", "artist" }

RECURSIVE SumCounts(_)
SumCounts(s) == IF s = <<>> THEN 0 ELSE Head(s).count + SumCounts(Tail(s))

OwnIds == { tracks[k].id : k \in DOMAIN tracks }
Done == { i \in DOMAIN loads : loads[i].pc = "done" }

\* C1: in the artist view no count is attributed to a track id outside the
\* current own-track set: performanceByTrack has no entry for such an id and
\* the monthly trend of selectedTrackId is empty when it is such an id.
C1_OwnTracksOnly ==
    active = "artist" =>
        LET perf == performanceByTrack(tracks, logSheets)
        IN  /\ \A i \in DOMAIN perf : perf[i].key \in OwnIds
            /\ selectedTrackId \notin OwnIds =>
                   SumCounts(ArtistHistoricalData(selectedTrackId, logSheets)) = 0

\* C2 as stated: once every load has completed, the view-model holds the
\* snapshot fetched by the load that was started last.
C2_LaterStartedWins ==
    (active \in Analytics /\ Len(loads) >= 2 /\ Pending = {}) =>
        /\ logSheets = loads[Len(loads)].sheets
        /\ tracks = loads[Len(loads)].tracks

\* C2 as amended: every load that completes overwrites the view-model with the
\* snapshot it fetched, also when a load started later has already completed,
\* so the view-model holds the snapshot of the load that resolved last.
C2_LastResolvedWins ==
    [][\A i \in DOMAIN loads :
          (active \in Analytics /\ i \in Pending /\ i \in DOMAIN loads'
             /\ loads'[i].pc = "done")
          => (logSheets' = loads'[i].sheets /\ tracks' = loads'[i].tracks)]_vars

\* two overlapping loads resolved out of order: the view-model holds the
\* snapshot of the load started first
C2_Witness ==
    /\ active \in Analytics
    /\ Len(loads) = 2
    /\ Pending = {}
    /\ loads[2].by = "onStorage"
    /\ loads[1].sheets # loads[2].sheets
    /\ logSheets = loads[1].sheets

\* C3: loading is true exactly while at least one load is in flight.
C3_LoadingWhileInFlight ==
    active \in Analytics => (loading <=> Pending # {})

\* the events C4 calls accepted: the update key and a payload text that parses
\* to an object of type "music" or "profile"
C4_Accepted(e) ==
    /\ e.key = "namsa:update"
    /\ e.newValue \in { "{\"type\":\"music\"}", "{\"type\":\"profile\"}" }

\* C4: in the analytics views a storage event starts exactly one load when it
\* is accepted and none otherwise.
C4_ReloadIffAccepted ==
    [][\A e \in StorageEvents :
          (active \in Analytics /\ StorageEvent(e))
          => Len(loads') = Len(loads) + (IF C4_Accepted(e) THEN 1 ELSE 0)]_vars

\* an accepted notification has started the second load of an analytics view
C4_Witness ==
    /\ active \in Analytics
    /\ handled = "load"
    /\ Len(loads) = 2
    /\ loads[2].by = "onStorage"
    /\ loads[2].pc = "await"

Unparsable == { "not json", "{type:music}" }

\* C5: a storage event on the update key with an unparsable payload is
\* absorbed: the handler catches the parse error, and no load is started, no
\* toast emitted, and the view-model and the loading flag stay as they were.
C5_MalformedAbsorbed ==
    [][\A e \in StorageEvents :
          (e.key = "namsa:update" /\ e.newValue \in Unparsable /\ StorageEvent(e))
          => /\ handled' = "caught"
             /\ UNCHANGED <<loads, toasts, logSheets, tracks, music, loading,
                            selectedTrackId>>]_vars

\* an unparsable payload was handled while a view held data
C5_Witness ==
    /\ handled = "caught"
    /\ active \in Analytics
    /\ logSheets # <<>>

Confirmations == { k \in DOMAIN toasts : toasts[k] = ConfirmToast }
RefreshesDone == { i \in Done : loads[i].by = "onStorage" }

\* C6: every confirmation toast follows the completion of the refresh it
\* confirms, so there are never more confirmations than completed refreshes.
C6_ConfirmAfterRefresh ==
    active \in Analytics => Cardinality(Confirmations) <= Cardinality(RefreshesDone)

\* C7: at most one onStorage is registered, none while no view is active, and
\* then no load is in flight or started.
C7_ScopedSubscription ==
    /\ listeners <= 1
    /\ active = "none" => (listeners = 0 /\ loads = <<>>)

\* the effect has run a second time and one listener is registered
C7_Witness ==
    /\ active # "none"
    /\ Len(loads) = 2
    /\ loads[2].by = "effect"
    /\ listeners = 1

\* the snapshot without its selection entries that lack a track identifier
RECURSIVE WithoutMissing(_)
WithoutMissing(sheets) ==
    IF sheets = <<>> THEN <<>>
    ELSE <<[Head(sheets) EXCEPT
              !.selectedMusic = SelectSeq(@, LAMBDA m : m.id # NoId)]>>
         \o WithoutMissing(Tail(sheets))

\* C8: selection entries without a track identifier contribute to no
\* aggregate: every aggregate is what it would be without those entries.
C8_MissingIdCountsNowhere ==
    LET clean == WithoutMissing(logSheets)
    IN  /\ active = "admin" =>
              /\ songCounts(logSheets) = songCounts(clean)
              /\ artistCounts(logSheets) = artistCounts(clean)
              /\ companyCounts(logSheets) = companyCounts(clean)
              /\ AdminHistoricalData(logSheets) = AdminHistoricalData(clean)
        /\ active = "artist" =>
              /\ performanceByTrack(tracks, logSheets) = performanceByTrack(tracks, clean)
              /\ ArtistHistoricalData(selectedTrackId, logSheets)
                     = ArtistHistoricalData(selectedTrackId, clean)

\* the selection events of a snapshot that carry a track identifier
ResolvableEvents(sheets) ==
    { <<s, k>> \in (DOMAIN sheets) \X (1..MaxSel) :
          k \in DOMAIN sheets[s].selectedMusic /\ sheets[s].selectedMusic[k].id # NoId }

\* C9: in the administrator view the per-track counts add up to the number of
\* selection events that carry a track identifier, duplicates included.
C9_TrackCountsSum ==
    active = "admin" =>
        SumCounts(songCounts(logSheets)) = Cardinality(ResolvableEvents(logSheets))

\* a loaded snapshot in which one sheet lists the same track twice
C9_Witness ==
    /\ active = "admin"
    /\ \E s \in DOMAIN logSheets :
          /\ Len(logSheets[s].selectedMusic) = 2
          /\ logSheets[s].selectedMusic[1].id = logSheets[s].selectedMusic[2].id
          /\ logSheets[s].selectedMusic[1].id # NoId
    /\ \E s \in DOMAIN logSheets : logSheets[s].selectedMusic = <<>>

ErrorToasts == { k \in DOMAIN toasts : toasts[k] = ErrorToast }
FailedLoads == { i \in Done : loads[i].rejected # {} }

\* C11: every load of an analytics view whose snapshot request was rejected
\* has surfaced the failure as an error toast.
C11_FailureSurfaced ==
    active \in Analytics => Cardinality(ErrorToasts) >= Cardinality(FailedLoads)

\* C12: while its view is active, a load that was started is never cancelled
\* or dropped, also when another load starts meanwhile: it stays in flight
\* until it completes, on completion it overwrites the view-model with its own
\* snapshot, it does complete (the provider answering every request), and
\* once no load is in flight loading is false.
C12_EveryRefreshCompletes ==
    /\ [][\A i \in DOMAIN loads :
            (active \in Analytics /\ i \in Pending /\ active' # "none")
            => /\ i \in DOMAIN loads'
               /\ \/ loads'[i].pc = "await"
                  \/ /\ loads'[i].pc = "done"
                     /\ logSheets' = loads'[i].sheets
                     /\ tracks' = loads'[i].tracks]_vars
    /\ \A i \in 1..MaxLoads :
          (active \in Analytics /\ i \in Pending) ~> (i \in Done \/ active = "none")
    /\ [](active \in Analytics /\ Pending = {} => ~loading)

\* a refresh started while the initial load was in flight; both completed in
\* the order they started, each with its own snapshot, and loading is false
C12_Witness ==
    /\ active \in Analytics
    /\ Len(loads) = 2
    /\ Pending = {}
    /\ loads[2].by = "onStorage"
    /\ loads[1].sheets # loads[2].sheets
    /\ logSheets = loads[2].sheets
    /\ ~loading

\* the selection events of a snapshot: sheet position and entry position
Events(sheets) ==
    UNION { { <<s, k>> : k \in DOMAIN sheets[s].selectedMusic } : s \in DOMAIN sheets }
EventEntry(sheets, ev) == sheets[ev[1]].selectedMusic[ev[2]]
\* the number of events of the snapshot `snap` that satisfy P
EventCount(snap, P(_)) == Cardinality({ ev \in Events(snap) : P(ev) })

\* the counts shown by the administrator view for logSheets value ls are the
\* numbers of events of the snapshot snap, key by key, with no key missing
AdminCountsOf(ls, snap) ==
    LET songs == songCounts(ls)
        artists == artistCounts(ls)
        companies == companyCounts(ls)
        trend == AdminHistoricalData(ls)
        withId == { ev \in Events(snap) : EventEntry(snap, ev).id # NoId }
    IN  /\ \A i \in DOMAIN songs :
              songs[i].count =
                  EventCount(snap, LAMBDA ev : EventEntry(snap, ev).id = songs[i].id)
        /\ { songs[i].id : i \in DOMAIN songs }
               = { EventEntry(snap, ev).id : ev \in withId }
        /\ \A i \in DOMAIN artists :
              artists[i].count =
                  EventCount(snap, LAMBDA ev :
                      /\ ev \in withId
                      /\ artistName(EventEntry(snap, ev)) = artists[i].key)
        /\ { artists[i].key : i \in DOMAIN artists }
               = { artistName(EventEntry(snap, ev)) : ev \in withId }
        /\ \A i \in DOMAIN companies :
              companies[i].count =
                  EventCount(snap, LAMBDA ev :
                      /\ ev \in withId
                      /\ companyName(snap[ev[1]]) = companies[i].key)
        /\ { companies[i].key : i \in DOMAIN companies }
               = { companyName(snap[ev[1]]) : ev \in withId }
        /\ \A i \in DOMAIN trend :
              trend[i].count =
                  EventCount(snap, LAMBDA ev :
                      monthKey(snap[ev[1]].createdDate) = trend[i].month)
        /\ { trend[i].month : i \in DOMAIN trend }
               = { monthKey(snap[s].createdDate) : s \in DOMAIN snap }

\* the counts shown by the artist view for tracks ts, selected track sel and
\* logSheets value ls are the numbers of events of the snapshot snap
ArtistCountsOf(ls, ts, sel, snap) ==
    LET perf == performanceByTrack(ts, ls)
        trend == ArtistHistoricalData(sel, ls)
    IN  /\ { perf[i].key : i \in DOMAIN perf } = { ts[k].id : k \in DOMAIN ts }
        /\ \A i \in DOMAIN perf :
              /\ perf[i].total =
                     EventCount(snap, LAMBDA ev : EventEntry(snap, ev).id = perf[i].key)
              /\ \A j \in DOMAIN perf[i].companies :
                    perf[i].companies[j].count =
                        EventCount(snap, LAMBDA ev :
                            /\ EventEntry(snap, ev).id = perf[i].key
                            /\ companyName(snap[ev[1]]) = perf[i].companies[j].key)
        /\ \A i \in DOMAIN trend :
              trend[i].count =
                  EventCount(snap, LAMBDA ev :
                      /\ EventEntry(snap, ev).id = sel
                      /\ monthKey(snap[ev[1]].createdDate) = trend[i].month)

\* C13: after every step of any sequence of loads and refreshes, every count
\* shown is the number of selection events of its key in the snapshot applied
\* last (the one of the load that has just completed, otherwise the one the
\* view-model already held), with nothing carried over from earlier ones.
C13_CountsOfLatestSnapshot ==
    [][LET applied == { i \in Pending : i \in DOMAIN loads' /\ loads'[i].pc = "done" }
           snap == IF applied = {} THEN logSheets
                   ELSE loads'[CHOOSE i \in applied : TRUE].sheets
       IN  /\ active' = "admin" => AdminCountsOf(logSheets', snap)
           /\ active' = "artist" =>
                  ArtistCountsOf(logSheets', tracks', selectedTrackId', snap)]_vars

\* a refresh replaced a non-empty snapshot by the empty one and a later one
\* brought events back: the counts shown are those of the last snapshot
C13_Witness ==
    /\ active = "admin"
    /\ Len(loads) >= 2
    /\ Pending = {}
    /\ \E i \in Done : loads[i].sheets = <<>>
    /\ logSheets # <<>>
    /\ SumCounts(songCounts(logSheets)) = Cardinality(Events(logSheets))

\* the entries of a sequence, as a set
Range(s) == { s[i] : i \in DOMAIN s }

\* `top` is a ranking of `counter`: at most 10 entries and as many as the
\* counter allows, non-increasing counts, each an entry of the counter taken
\* once, and no entry left out counts more than an entry kept
IsRanking(top, counter) ==
    /\ Len(top) <= 10
    /\ Len(top) = Min(Len(counter), 10)
    /\ \A i, j \in DOMAIN top : i < j => top[i].count >= top[j].count
    /\ Range(top) \subseteq Range(counter)
    /\ \A i, j \in DOMAIN top : i # j => top[i] # top[j]
    /\ \A e \in Range(counter) \ Range(top) : \A t \in Range(top) : e.count <= t.count

\* C14: the ranked output of each of the three counters has at most 10
\* entries, is sorted non-increasing by count, consists of entries of the
\* counter, and omits no entry that counts more than one it includes.
C14_TopTen ==
    active = "admin" =>
        /\ IsRanking(topSongs(logSheets), songCounts(logSheets))
        /\ IsRanking(topArtists(logSheets), artistCounts(logSheets))
        /\ IsRanking(topCompanies(logSheets), companyCounts(logSheets))

\* a counter of more than 10 keys with unequal counts, one key left out
C14_Witness ==
    /\ active = "admin"
    /\ Len(songCounts(logSheets)) > 10
    /\ Len(topSongs(logSheets)) = 10
    /\ \E i, j \in DOMAIN songCounts(logSheets) :
          songCounts(logSheets)[i].count < songCounts(logSheets)[j].count
    /\ Len(topArtists(logSheets)) = 10
    /\ Len(topCompanies(logSheets)) = 10

\* s is a string YYYY-MM: four digits, a hyphen, a two-digit month 01..12
IsMonthKey(s) ==
    /\ Len(s) = 7
    /\ \A p \in { 1, 2, 3, 4, 6, 7 } : s[p] \in Range(DigitChars)
    /\ s[5] = "-"
    /\ ParseInt(SubSeq(s, 6, 7)) \in 1..12

\* code-point order of strings of digits and hyphens
CodePoint(c) == IF c = "-" THEN 45 ELSE 48 + DigitVal(c)
LexLeq(a, b) ==
    \/ (Len(a) <= Len(b) /\ \A p \in DOMAIN a : a[p] = b[p])
    \/ \E p \in DOMAIN a \cap DOMAIN b :
          /\ \A q \in 1..(p - 1) : a[q] = b[q]
          /\ CodePoint(a[p]) < CodePoint(b[p])

\* the calendar month a month key names, as a number of months
MonthNumber(s) == 12 * ParseInt(SubSeq(s, 1, 4)) + ParseInt(SubSeq(s, 6, 7))

\* `trend` is a series of month keys, one per calendar month of the creation
\* dates `dates`, ascending lexicographically and thereby chronologically
IsMonthSeries(trend, dates) ==
    /\ \A i \in DOMAIN trend : IsMonthKey(trend[i].month)
    /\ \A i, j \in DOMAIN trend : i < j =>
          /\ trend[i].month # trend[j].month
          /\ LexLeq(trend[i].month, trend[j].month)
          /\ MonthNumber(trend[i].month) < MonthNumber(trend[j].month)
    /\ { MonthNumber(trend[i].month) : i \in DOMAIN trend }
           = { 12 * d.year + d.month + 1 : d \in dates }

\* C15: in both views every month key of the trend is a length-7 string
\* YYYY-MM with a zero-padded month, no month key occurs twice, and the
\* series ascends lexicographically, which is the chronological order of the
\* months the sheets were created in.
C15_MonthKeys ==
    /\ active = "admin" =>
          IsMonthSeries(AdminHistoricalData(logSheets),
                        { logSheets[s].createdDate : s \in DOMAIN logSheets })
    /\ active = "artist" =>
          IsMonthSeries(ArtistHistoricalData(selectedTrackId, logSheets),
                        { logSheets[s].createdDate :
                            s \in { s \in DOMAIN logSheets :
                                      /\ selectedTrackId # NoId
                                      /\ \E k \in DOMAIN logSheets[s].selectedMusic :
                                            logSheets[s].selectedMusic[k].id
                                                = selectedTrackId } })

\* sheets of one year that arrived latest first, one created in a one-digit
\* month and one in a two-digit month: the trend lists the earlier first
C15_Witness ==
    /\ active = "admin"
    /\ Len(logSheets) = 2
    /\ logSheets[1].createdDate.year = logSheets[2].createdDate.year
    /\ logSheets[1].createdDate.month >= 9
    /\ logSheets[2].createdDate.month < 9
    /\ Len(AdminHistoricalData(logSheets)) = 2
    /\ AdminHistoricalData(logSheets)[1].month = monthKey(logSheets[2].createdDate)

\* C16: in the administrator view the snapshot of Sheet A (2024-01-15; track
\* 1, track 1, track 2) and Sheet B (2024-02-03; track 1) gives the track
\* counts 1:3 and 2:1, the top list track 1 (3), track 2 (1), and the trend
\* ("2024-01", 3), ("2024-02", 1).
C16_WorkedExample ==
    (active = "admin" /\ logSheets = <<SheetA, SheetB>>) =>
        LET songs == songCounts(logSheets)
            top == topSongs(logSheets)
        IN  /\ { <<songs[i].id, songs[i].count>> : i \in DOMAIN songs }
                   = { <<1, 3>>, <<2, 1>> }
            /\ Len(songs) = 2
            /\ [i \in DOMAIN top |-> <<top[i].id, top[i].count>>]
                   = << <<1, 3>>, <<2, 1>> >>
            /\ AdminHistoricalData(logSheets)
                   = << [month |-> <<"2", "0", "2", "4", "-", "0", "1">>, count |-> 3],
                        [month |-> <<"2", "0", "2", "4", "-", "0", "2">>, count |-> 1] >>

\* the administrator view holds the snapshot of the worked example
C16_Witness ==
    /\ active = "admin"
    /\ logSheets = <<SheetA, SheetB>>
    /\ SheetA.createdDate = [year |-> 2024, month |-> 0, day |-> 15]
    /\ SheetB.createdDate = [year |-> 2024, month |-> 1, day |-> 3]
    /\ [k \in DOMAIN SheetA.selectedMusic |-> SheetA.selectedMusic[k].id] = <<1, 1, 2>>
    /\ [k \in DOMAIN SheetB.selectedMusic |-> SheetB.selectedMusic[k].id] = <<1>>

\* ranking `counter` again, starting from the entry list as the first ranking
\* left it, gives the same sequence and leaves the entry list as it is
RankedTwice(counter) ==
    LET first == Ranker(counter)
        second == Ranker(first.arr)
    IN  /\ second.top = first.top
        /\ second.arr = first.arr

\* C17: ranking is idempotent: ranking a counter a second time, also after
\* the first ranking has sorted the counter's entry list in place, yields the
\* identical sequence, which is the top list the view shows.
C17_RankingIdempotent ==
    active = "admin" =>
        /\ RankedTwice(songCounts(logSheets))
        /\ RankedTwice(artistCounts(logSheets))
        /\ RankedTwice(companyCounts(logSheets))
        /\ topSongs(logSheets) = Ranker(Ranker(songCounts(logSheets)).arr).top
        /\ topArtists(logSheets) = Ranker(Ranker(artistCounts(logSheets)).arr).top
        /\ topCompanies(logSheets) = Ranker(Ranker(companyCounts(logSheets)).arr).top

\* a counter of more than 10 keys in which the first ranking moved entries
\* and entries of equal count lie on both sides of the cut
C17_Witness ==
    /\ active = "admin"
    /\ Len(artistCounts(logSheets)) > 10
    /\ Ranker(artistCounts(logSheets)).arr # artistCounts(logSheets)
    /\ \E e \in Range(artistCounts(logSheets)) \ Range(topArtists(logSheets)) :
          \E t \in Range(topArtists(logSheets)) : t.count = e.count

\* the sum of the selection-list lengths of the sheets at the positions S
RECURSIVE SumLens(_, _)
SumLens(sheets, S) ==
    IF S = {} THEN 0
    ELSE LET s == CHOOSE x \in S : TRUE
         IN  Len(sheets[s].selectedMusic) + SumLens(sheets, S \ { s })

\* the sheets of a snapshot created in the calendar month a month key names
CreatedIn(sheets, key) ==
    { s \in DOMAIN sheets :
          12 * sheets[s].createdDate.year + sheets[s].createdDate.month + 1
              = MonthNumber(key) }

\* C18: in the administrator view the count of each month of the trend is
\* the sum of the selection-list lengths of the sheets created in that month,
\* every sheet's month is in the trend, and so the monthly counts add up to
\* the number of selection events of the snapshot.
C18_MonthCountsAreListLengths ==
    active = "admin" =>
        LET trend == AdminHistoricalData(logSheets)
        IN  /\ \A i \in DOMAIN trend :
                  trend[i].count = SumLens(logSheets, CreatedIn(logSheets, trend[i].month))
            /\ \A s \in DOMAIN logSheets :
                  \E i \in DOMAIN trend : s \in CreatedIn(logSheets, trend[i].month)
            /\ SumCounts(trend) = SumLens(logSheets, DOMAIN logSheets)
            /\ SumCounts(trend) = Cardinality(Events(logSheets))

\* two sheets created in the same month, one of them listing an entry without
\* a track identifier: the month counts both selection lists in full
C18_Witness ==
    /\ active = "admin"
    /\ Len(logSheets) = 2
    /\ logSheets[1].createdDate = logSheets[2].createdDate
    /\ logSheets[1].selectedMusic # <<>>
    /\ logSheets[2].selectedMusic # <<>>
    /\ \E k \in DOMAIN logSheets[2].selectedMusic : logSheets[2].selectedMusic[k].id = NoId
    /\ Len(AdminHistoricalData(logSheets)) = 1
    /\ AdminHistoricalData(logSheets)[1].count = 2

\* C19: in the artist view the running total of every own track is the sum of
\* its nested per-company counts, and for a selected own track the monthly
\* trend counts add up to that track's total.
C19_ScopedTotals ==
    active = "artist" =>
        LET perf == performanceByTrack(tracks, logSheets)
        IN  /\ \A k \in DOMAIN tracks : \E i \in DOMAIN perf : perf[i].key = tracks[k].id
            /\ \A i \in DOMAIN perf : perf[i].total = SumCounts(perf[i].companies)
            /\ selectedTrackId \in OwnIds =>
                  SumCounts(ArtistHistoricalData(selectedTrackId, logSheets))
                      = At(perf, selectedTrackId).total

\* the selected own track was selected by a named company and by a sheet
\* without company, in two different months
C19_Witness ==
    /\ active = "artist"
    /\ selectedTrackId \in OwnIds
    /\ LET perf == performanceByTrack(tracks, logSheets)
       IN  /\ At(perf, selectedTrackId).total = 2
           /\ Len(At(perf, selectedTrackId).companies) = 2
    /\ Len(ArtistHistoricalData(selectedTrackId, logSheets)) = 2

=============================================================================
